---------------------------- MODULE Spec2Model ----------------------------
(***************************************************************************)
(* A model of the pension simulation of src/ualRate: the investment fund   *)
(* (pensFund.py) and the annual cycle of the plan (pensPlan.py).           *)
(*                                                                         *)
(* Amounts are Python floats in the source.  They are modelled as exact    *)
(* rationals <<n, d>> in lowest terms with d > 0, so that the proportional *)
(* split b / total * amount and round(x, 2) are computed, not assumed.     *)
(* Binary floating-point representation error is outside the model.        *)
(***************************************************************************)
EXTENDS Integers, Sequences, FiniteSets, TLC

VARIABLES fund, plan, pop, exc, call, steps

vars == <<fund, plan, pop, exc, call, steps>>

-----------------------------------------------------------------------------
(* Exact rational arithmetic standing for Python's float operators.        *)

RECURSIVE GCD(_, _)
GCD(a, b) == IF b = 0 THEN a ELSE GCD(b, a % b)

AbsInt(n) == IF n < 0 THEN -n ELSE n

Norm(n, d) ==
    LET s == IF d < 0 THEN -1 ELSE 1
        g == GCD(AbsInt(n), AbsInt(d))
    IN  <<(s * n) \div g, (s * d) \div g>>

Zero == <<0, 1>>
One == <<1, 1>>
Hundred == <<100, 1>>

\* x + y over the least common denominator.
RAdd(x, y) ==
    LET g == GCD(x[2], y[2])
    IN  Norm(x[1] * (y[2] \div g) + y[1] * (x[2] \div g), x[2] * (y[2] \div g))
RNeg(x) == <<-x[1], x[2]>>
RSub(x, y) == RAdd(x, RNeg(y))
\* x * y, cancelling across before multiplying.
RMul(x, y) ==
    LET a == Norm(x[1], y[2])
        b == Norm(y[1], x[2])
    IN  <<a[1] * b[1], a[2] * b[2]>>
\* x / y for y # 0; the callers model the ZeroDivisionError of y = 0.
RDiv(x, y) == RMul(x, Norm(y[2], y[1]))
RLt(x, y) == RSub(x, y)[1] < 0
RLe(x, y) == RSub(x, y)[1] <= 0
RMax(x, y) == IF RLt(x, y) THEN y ELSE x
RAbs(x) == IF x[1] < 0 THEN RNeg(x) ELSE x
RInt(n) == <<n, 1>>

\* round(x): the nearest integer, ties to the even one.
RoundInt(x) ==
    LET q == x[1] \div x[2]
        r == x[1] % x[2]
    IN  IF 2 * r < x[2] THEN q
        ELSE IF 2 * r > x[2] THEN q + 1
        ELSE IF q % 2 = 0 THEN q ELSE q + 1

\* round(x, 2): the nearest multiple of 0.01, ties to the even one.
Round2(x) == Norm(RoundInt(RMul(x, Hundred)), 100)

\* x is a whole number of cents.
WholeCents(x) == 100 % x[2] = 0

-----------------------------------------------------------------------------
(* pensFund                                                                *)

pctE == <<3, 5>>
pctB == <<3, 10>>
pctO == <<1, 10>>

Balances(f) == <<f.equity, f.bonds, f.other>>

\* sum([e, b, o]) and self.equity + self.bonds + self.other
Sum3(t) == RAdd(RAdd(t[1], t[2]), t[3])
Total(f) == Sum3(Balances(f))

pensFund(assetTotal, currYear) ==
    LET e == Round2(RMul(pctE, assetTotal))
        b == Round2(RMul(pctB, assetTotal))
        o == Round2(RMul(pctO, assetTotal))
    IN  [equity |-> e, bonds |-> b, other |-> o,
         currentYear |-> currYear,
         ledger |-> [y \in {currYear} |-> <<e, b, o>>]]

\* Share with the static allocation used whatever the total is.
ShareStatic(f, b, pct, amount) == RMul(pct, amount)

\* The share of an amount that goes to balance b of fund f.
Share(f, b, pct, amount) ==
    IF Total(f) = Zero THEN RMul(pct, amount)
    ELSE RMul(RDiv(b, Total(f)), amount)

addPremiums(f, premiums) ==
    [f EXCEPT !.equity = RAdd(f.equity, Share(f, f.equity, pctE, premiums)),
              !.bonds = RAdd(f.bonds, Share(f, f.bonds, pctB, premiums)),
              !.other = RAdd(f.other, Share(f, f.other, pctO, premiums))]

NegPart(x) == IF RLt(x, Zero) THEN RNeg(x) ELSE Zero

\* payGoReturn reporting the net deficit instead of the negative balances.
payGoReturnNet(f) ==
    IF RLe(Zero, Total(f)) THEN Zero ELSE RNeg(Total(f))

payGoReturn(f) ==
    IF RLe(Zero, Total(f)) THEN Zero
    ELSE RAdd(RAdd(NegPart(f.equity), NegPart(f.bonds)), NegPart(f.other))

payGo(f) ==
    IF RLe(Zero, Total(f)) THEN f
    ELSE [f EXCEPT !.equity = RMax(f.equity, Zero),
                   !.bonds = RMax(f.bonds, Zero),
                   !.other = RMax(f.other, Zero)]

\* Lines 61-69 of payBenefits: the withdrawal, before the call of payGo.
withdraw(f, benefits) ==
    [f EXCEPT !.equity = RSub(f.equity, Share(f, f.equity, pctE, benefits)),
              !.bonds = RSub(f.bonds, Share(f, f.bonds, pctB, benefits)),
              !.other = RSub(f.other, Share(f, f.other, pctO, benefits))]

\* payBenefits without the shortfall correction of the balances.
payBenefitsUncorrected(f, benefits) == withdraw(f, benefits)

payBenefits(f, benefits) == payGo(withdraw(f, benefits))

payBenefitsReturn(f, benefits) == payGoReturn(withdraw(f, benefits))

\* Lines 80-88: the balances are multiplied and rounded before r is computed.
addInvestmentEarnings(f, e, b, o) ==
    [f EXCEPT !.equity = Round2(RMul(f.equity, RAdd(One, e))),
              !.bonds = Round2(RMul(f.bonds, RAdd(One, b))),
              !.other = Round2(RMul(f.other, RAdd(One, o)))]

\* Line 91 divides by A: a ZeroDivisionError when the prior total is 0.
earningsRaises(f) == Total(f) = Zero

\* [r, A] of line 92, for a fund with Total(f) # 0.
earningsReturn(f, e, b, o) ==
    LET A == Total(f)
        newA == Total(addInvestmentEarnings(f, e, b, o))
    IN  <<RDiv(RSub(newA, A), A), A>>

\* updateLedger rebuilding the ledger instead of adding to it.
updateLedgerReset(f, year) ==
    [f EXCEPT !.currentYear = year,
              !.ledger = [y \in {year} |-> Balances(f)]]

updateLedger(f, year) ==
    [f EXCEPT !.currentYear = year,
              !.ledger = [y \in DOMAIN f.ledger \cup {year} |->
                            IF y = year THEN Balances(f) ELSE f.ledger[y]]]

-----------------------------------------------------------------------------
(* The record of the last call: the operation, its argument, the balances  *)
(* before it, the balances after its arithmetic and before any shortfall   *)
(* correction, and its return value.                                       *)

Call(op, arg, pre, mid, ret) ==
    [op |-> op, arg |-> arg, pre |-> pre, mid |-> mid, ret |-> ret]

NoCall == Call("init", Zero, <<Zero, Zero, Zero>>, <<Zero, Zero, Zero>>, Zero)

\* The plan and population slots of a state that holds only a fund.
NoPlan == [currentYear |-> 0]
NoPop == [advances |-> 0, active |-> 0]

-----------------------------------------------------------------------------
(* A fund driven directly, as testFund drives it: any sequence of its      *)
(* operations.                                                             *)

FundStartYear == 2020
MaxSteps == 3
MaxLedgerYears == 1

AssetTotals == {Zero, RInt(100)}
Premiums == {<<1, 100>>, RInt(50)}
Benefits == {RInt(40), RInt(100), RInt(250)}
\* v of testFund: the mean and the standard deviation of each asset class.
FundVol == <<<<3, 50>>, <<3, 100>>, <<1, 25>>, <<1, 100>>, <<3, 50>>, <<1, 20>>>>
\* Samples of a normal draw of positive deviation, whose support is every
\* real number.
ReturnDraws == {<<-2, 1>>, Zero, One}
\* np.random.normal(mean, sd): the mean itself when sd is 0.
NormalDraws(mean, sd) == IF sd = Zero THEN {mean} ELSE ReturnDraws
LedgerYears == FundStartYear .. (FundStartYear + MaxLedgerYears)

FundInit ==
    /\ \E assetTotal \in AssetTotals : fund = pensFund(assetTotal, FundStartYear)
    /\ plan = NoPlan
    /\ pop = NoPop
    /\ exc = "none"
    /\ call = NoCall
    /\ steps = 0

FundGuard == exc = "none" /\ steps < MaxSteps

FundAddPremiums ==
    /\ FundGuard
    /\ \E premiums \in Premiums :
         /\ fund' = addPremiums(fund, premiums)
         /\ call' = Call("addPremiums", premiums, Balances(fund),
                         Balances(fund'), Zero)
    /\ steps' = steps + 1
    /\ UNCHANGED <<plan, pop, exc>>

FundPayGo ==
    /\ FundGuard
    /\ fund' = payGo(fund)
    /\ call' = Call("payGo", Zero, Balances(fund), Balances(fund),
                    payGoReturn(fund))
    /\ steps' = steps + 1
    /\ UNCHANGED <<plan, pop, exc>>

FundPayBenefits ==
    /\ FundGuard
    /\ \E benefits \in Benefits :
         /\ fund' = payBenefits(fund, benefits)
         /\ call' = Call("payBenefits", benefits, Balances(fund),
                         Balances(withdraw(fund, benefits)),
                         payBenefitsReturn(fund, benefits))
    /\ steps' = steps + 1
    /\ UNCHANGED <<plan, pop, exc>>

FundAddInvestmentEarnings ==
    /\ FundGuard
    /\ \E e \in NormalDraws(FundVol[1], FundVol[2]),
          b \in NormalDraws(FundVol[3], FundVol[4]),
          o \in NormalDraws(FundVol[5], FundVol[6]) :
         /\ fund' = addInvestmentEarnings(fund, e, b, o)
         /\ exc' = IF earningsRaises(fund) THEN "ZeroDivisionError" ELSE "none"
         /\ call' = Call("addInvestmentEarnings", Zero, Balances(fund),
                         Balances(fund'),
                         IF earningsRaises(fund) THEN Zero
                         ELSE earningsReturn(fund, e, b, o)[1])
    /\ steps' = steps + 1
    /\ UNCHANGED <<plan, pop>>

FundUpdateLedger ==
    /\ FundGuard
    /\ \E year \in LedgerYears :
         /\ fund' = updateLedger(fund, year)
         /\ call' = Call("updateLedger", RInt(year), Balances(fund),
                         Balances(fund), Zero)
    /\ steps' = steps + 1
    /\ UNCHANGED <<plan, pop, exc>>

FundNext ==
    \/ FundAddPremiums
    \/ FundPayGo
    \/ FundPayBenefits
    \/ FundAddInvestmentEarnings
    \/ FundUpdateLedger

FundSpec == FundInit /\ [][FundNext]_vars

-----------------------------------------------------------------------------
(* pensPop, as far as the plan uses it, after its description in the       *)
(* design document (section 4.2).  The population is a count of advances   *)
(* and of active members; what its valuation returns is drawn from bounded *)
(* sets.                                                                   *)

InitActive == 1

Liabilities == {Zero, RInt(6), RInt(10)}
InitLiabilities == Liabilities \ {Zero}
Salaries == {Zero, RInt(4)}
OwedBenefits == {<<1, 2>>, RInt(20)}

simulatePopulation == [advances |-> 0, active |-> InitActive]

\* info['replace'] of advanceOneYear: the active members that left.
Separations(p) == 0 .. p.active

popAdvanceOneYear(p, replace) ==
    [p EXCEPT !.advances = p.advances + 1, !.active = p.active - replace]

hireReplacements(p, count, employ) ==
    [p EXCEPT !.active = p.active + RoundInt(RMul(RInt(count), employ))]

\* calculateTotalSalary: the salaries of the active members, each >= 0.
TotalSalaries(p) == IF p.active = 0 THEN {Zero} ELSE Salaries

-----------------------------------------------------------------------------
(* pensPlan                                                                *)

PlanStartYear == 2000
MaxYears == 2

\* vol of the main block: every standard deviation is 0.
PlanVol == <<<<3, 100>>, Zero, <<1, 100>>, Zero, <<3, 100>>, Zero>>
\* dr of the main block
DiscountRate == <<7, 100>>
\* The values f takes in the main block.
FundingFractions == {<<1, 2>>, One, <<3, 2>>}
\* The values eg takes in the main block.
EmploymentGrowths == {<<1, 2>>, One, <<3, 2>>}
\* premiumRate: the default of __init__.
PremiumRate == One

pensPlan(currentYear, employ, discountRate, funds, pr, totalLiability) ==
    LET liability == Round2(totalLiability)
        f == pensFund(RMul(funds, liability), currentYear)
    IN  [currentYear |-> currentYear,
         employ |-> employ,
         cr |-> Zero,
         payGo |-> Zero,
         totalPay |-> Zero,
         pr |-> pr,
         instability |-> One,
         r |-> Zero,
         discountRate |-> discountRate,
         liability |-> liability,
         ual |-> Round2(RSub(liability, Sum3(f.ledger[currentYear]))),
         assets |-> Sum3(f.ledger[currentYear]),
         growthRate |-> Zero]

\* Lines 84-90: the division of line 85 has no handler.
contributionRateRaises(popGrowth, totalPay) ==
    popGrowth # 0 /\ RMul(totalPay, RInt(popGrowth)) = Zero

contributionRate(normalCost, payGoAmount, totalPay, popGrowth) ==
    IF popGrowth # 0
    THEN RDiv(RAdd(normalCost, payGoAmount), RMul(totalPay, RInt(popGrowth)))
    ELSE IF totalPay = Zero THEN Zero
         ELSE RDiv(RAdd(normalCost, payGoAmount), totalPay)

\* newUAL without the floor at 0.
newUALUnfloored(liability, assets, payGoAmount) ==
    RSub(RSub(liability, assets), payGoAmount)

newUAL(liability, assets, payGoAmount) ==
    RMax(RSub(RSub(liability, assets), payGoAmount), Zero)

\* Lines 94-100: the division of line 98 is inside the handler of line 96.
growthRateRaises(ual, nextUAL, liability) ==
    ual = Zero /\ nextUAL # Zero /\ liability = Zero

growthRate(ual, nextUAL, liability) ==
    Round2(IF ual # Zero
           THEN RDiv(RMul(RSub(nextUAL, ual), Hundred), ual)
           ELSE IF nextUAL # Zero
                THEN RDiv(RMul(nextUAL, Hundred), liability)
                ELSE Zero)

\* The record of the last advanceOneYear: the step it reached, the plan,
\* fund and population before it, and the locals of the call.
PlanCall(step, before, fundBefore, popBefore, popGrowth, normalCost) ==
    [op |-> "advanceOneYear", step |-> step, before |-> before,
     fundBefore |-> fundBefore, popBefore |-> popBefore,
     popGrowth |-> popGrowth, normalCost |-> normalCost]

\* What a call leaves: the plan, the fund, and the step that raised
\* ZeroDivisionError ("done" when none did).
Outcome(p, f, step) == [plan |-> p, fund |-> f, step |-> step]

\* Lines 92-102, on the plan p with cr assigned.
growthStep(p, f, oldUAL) ==
    IF growthRateRaises(oldUAL, newUAL(p.liability, p.assets, p.payGo),
                        p.liability)
    THEN Outcome(p, f, "growthRate")
    ELSE Outcome([p EXCEPT
                    !.growthRate =
                       growthRate(oldUAL,
                                  newUAL(p.liability, p.assets, p.payGo),
                                  p.liability),
                    !.ual = newUAL(p.liability, p.assets, p.payGo)],
                 f, "done")

\* Lines 83-90, on the plan p with payGo, assets and instability assigned.
contributionStep(p, f, loc) ==
    IF contributionRateRaises(loc.popGrowth, p.totalPay)
    THEN Outcome(p, f, "contributionRate")
    ELSE growthStep([p EXCEPT !.cr = contributionRate(loc.normalCost, p.payGo,
                                         p.totalPay, loc.popGrowth)],
                    f, loc.oldUAL)

\* Lines 77-81, on the fund f after payBenefits returned payGoAmount.
ledgerStep(p, f, payGoAmount, loc) ==
    contributionStep(
        [p EXCEPT !.payGo = payGoAmount,
                  !.assets = Sum3(updateLedger(f, p.currentYear).ledger[p.currentYear]),
                  !.instability =
                     RSub(RAdd(loc.contribution,
                               RMul(p.discountRate, p.liability)),
                          RAdd(RMul(loc.r, loc.A), loc.normalCost))],
        updateLedger(f, p.currentYear), loc)

\* Lines 73-76, on the fund f after addInvestmentEarnings returned [r, A].
premiumStep(p, f, loc) ==
    ledgerStep([p EXCEPT !.r = Round2(RMul(loc.r, Hundred))],
               payBenefits(addPremiums(f, loc.contribution), loc.benefit),
               Round2(payBenefitsReturn(addPremiums(f, loc.contribution),
                                        loc.benefit)),
               loc)

\* Lines 57-72, on the plan p and the fund f before the call.  info is what
\* the population returned (popGrowth, benefit, liability, salary); e, b and
\* o are the three draws.  loc holds the locals of the call.
advanceOneYear(p, f, info, e, b, o) ==
    LET p1 == [p EXCEPT !.currentYear = p.currentYear + 1,
                        !.liability = Round2(info.liability),
                        !.totalPay = Round2(info.salary)]
        normalCost == RSub(Round2(info.liability), p.liability)
    IN  IF earningsRaises(f)
        THEN Outcome(p1, addInvestmentEarnings(f, e, b, o), "earnings")
        ELSE premiumStep(p1, addInvestmentEarnings(f, e, b, o),
                         [r |-> earningsReturn(f, e, b, o)[1],
                          A |-> earningsReturn(f, e, b, o)[2],
                          contribution |-> RMul(p.pr, normalCost),
                          benefit |-> info.benefit,
                          normalCost |-> normalCost,
                          popGrowth |-> info.popGrowth,
                          oldUAL |-> p.ual])

Init ==
    /\ \E funds \in FundingFractions, totalLiability \in InitLiabilities,
          employ \in EmploymentGrowths :
         /\ plan = pensPlan(PlanStartYear, employ, DiscountRate,
                            funds, PremiumRate, totalLiability)
         /\ fund = pensFund(RMul(funds, Round2(totalLiability)), PlanStartYear)
    /\ pop = simulatePopulation
    /\ exc = "none"
    /\ call = NoCall
    /\ steps = 0

\* One call of pensPlan.advanceOneYear.  A ZeroDivisionError leaves the
\* assignments made before it and ends the run.
AdvanceOneYear ==
    /\ exc = "none"
    /\ steps < MaxYears
    /\ steps' = steps + 1
    /\ \E replace \in Separations(pop),
          benefit \in OwedBenefits,
          totalLiability \in Liabilities,
          e \in NormalDraws(PlanVol[1], PlanVol[2]),
          b \in NormalDraws(PlanVol[3], PlanVol[4]),
          o \in NormalDraws(PlanVol[5], PlanVol[6]) :
         LET left == popAdvanceOneYear(pop, replace)
             hired == hireReplacements(left, replace, plan.employ)
             popGrowth == hired.active - left.active
         IN  \E totalSalary \in TotalSalaries(hired) :
               \E out \in {advanceOneYear(plan, fund,
                                 [popGrowth |-> popGrowth,
                                  benefit |-> benefit,
                                  liability |-> totalLiability,
                                  salary |-> totalSalary],
                                 e, b, o)} :
                 /\ pop' = hired
                 /\ plan' = out.plan
                 /\ fund' = out.fund
                 /\ exc' = IF out.step = "done" THEN "none"
                           ELSE "ZeroDivisionError"
                 /\ call' = PlanCall(out.step, plan, fund, pop, popGrowth,
                                     RSub(out.plan.liability, plan.liability))

Next == AdvanceOneYear

Spec == Init /\ [][Next]_vars

-----------------------------------------------------------------------------
(* Properties of the fund's operations.                                    *)

FundOps == {"addPremiums", "payGo", "payBenefits", "addInvestmentEarnings"}

NonNeg(t) == \A i \in 1..3 : RLe(Zero, t[i])

\* C2: payGo on any balance triple: with a negative total every negative
\* balance becomes 0, every other balance is kept and the sum of the absolute
\* values of the negative balances is returned; with a nonnegative total it
\* returns 0 and changes no balance.
C2_PayGo ==
    call.op = "payGo" =>
        LET before == call.pre
            after == Balances(fund)
            owed(i) == IF before[i][1] < 0 THEN RAbs(before[i]) ELSE Zero
        IN  IF Sum3(before)[1] < 0
            THEN /\ \A i \in 1..3 :
                      after[i] = IF before[i][1] < 0 THEN Zero ELSE before[i]
                 /\ call.ret = RAdd(RAdd(owed(1), owed(2)), owed(3))
            ELSE /\ after = before
                 /\ call.ret = Zero

\* payGo met a negative total with balances of both signs.
C2_Witness ==
    /\ call.op = "payGo"
    /\ call.pre = <<RInt(-60), RInt(30), RInt(10)>>
    /\ Balances(fund) = <<Zero, RInt(30), RInt(10)>>
    /\ call.ret = RInt(60)

\* C3: addPremiums and the withdrawal of payBenefits move each balance by its
\* share b / T of the amount when the prior total T is positive, by the
\* static allocation fraction when T is 0, and the three moves sum to the
\* amount.
C3_Proportional ==
    call.op \in {"addPremiums", "payBenefits"} =>
        LET T == Sum3(call.pre)
            sign == IF call.op = "addPremiums" THEN One ELSE RInt(-1)
            move(i) == RMul(sign, RSub(call.mid[i], call.pre[i]))
            pct == <<pctE, pctB, pctO>>
        IN  /\ T[1] > 0 =>
                 \A i \in 1..3 : RMul(move(i), T) = RMul(call.pre[i], call.arg)
            /\ T = Zero =>
                 \A i \in 1..3 : move(i) = RMul(pct[i], call.arg)
            /\ T[1] >= 0 =>
                 RAdd(RAdd(move(1), move(2)), move(3)) = call.arg

\* A withdrawal from a fund whose balances are off the static allocation.
C3_Witness ==
    /\ call.op = "payBenefits"
    /\ Sum3(call.pre)[1] > 0
    /\ call.pre[1] # RMul(pctE, Sum3(call.pre))
    /\ call.mid # call.pre

C7_WholeCents ==
    /\ \A i \in 1..3 : WholeCents(Balances(fund)[i])
    /\ \A y \in DOMAIN fund.ledger :
          \A i \in 1..3 : WholeCents(fund.ledger[y][i])

\* C10: payBenefits(B) with B >= 0 on nonnegative balances of total T > 0
\* returns max(B - T, 0), leaves a total of max(T - B, 0) and no negative
\* balance, and leaves every balance 0 when it returns a positive amount.
C10_PayBenefits ==
    (/\ call.op = "payBenefits"
     /\ NonNeg(call.pre)
     /\ Sum3(call.pre)[1] > 0
     /\ call.arg[1] >= 0) =>
        LET T == Sum3(call.pre)
            B == call.arg
        IN  /\ call.ret = RMax(RSub(B, T), Zero)
            /\ Total(fund) = RMax(RSub(T, B), Zero)
            /\ NonNeg(Balances(fund))
            /\ RAdd(call.ret, RSub(T, Total(fund))) = B
            /\ call.ret[1] > 0 => Balances(fund) = <<Zero, Zero, Zero>>

\* Benefits above the total were paid from a fund with positive balances.
C10_Witness ==
    /\ call.op = "payBenefits"
    /\ NonNeg(call.pre)
    /\ Sum3(call.pre)[1] > 0
    /\ call.ret[1] > 0
    /\ Balances(fund) = <<Zero, Zero, Zero>>

-----------------------------------------------------------------------------
(* Properties of the plan's annual cycle.                                  *)

\* The steps of advanceOneYear that come after the contribution rate.
ReachedContribution == {"contributionRate", "growthRate", "done"}
ReachedGrowth == {"growthRate", "done"}

\* C1: a call of advanceOneYear that raises in the fund's earnings step
\* leaves the plan, the population and the fund as they were before it, and
\* the fund always holds a ledger entry for the plan's current year.
C1_Atomic ==
    /\ (exc # "none" /\ call.step = "earnings") =>
          /\ plan = call.before
          /\ pop = call.popBefore
          /\ fund = call.fundBefore
    /\ plan.currentYear \in DOMAIN fund.ledger

\* C5: the contribution-rate step never raises and assigns cr: 0 when
\* totalPay is 0, else (normalCost + payGo) / (totalPay * popGrowth) when
\* popGrowth is not 0, else (normalCost + payGo) / totalPay.
C5_ContributionRate ==
    (call.op = "advanceOneYear" /\ call.step \in ReachedContribution) =>
        /\ call.step # "contributionRate"
        /\ plan.cr =
             IF plan.totalPay = Zero THEN Zero
             ELSE IF call.popGrowth # 0
                  THEN RDiv(RAdd(call.normalCost, plan.payGo),
                            RMul(plan.totalPay, RInt(call.popGrowth)))
                  ELSE RDiv(RAdd(call.normalCost, plan.payGo), plan.totalPay)

\* The growth rate of step 12 before it is rounded.
GrowthFormula(oldUAL, nextUAL, liability) ==
    IF oldUAL # Zero
    THEN RDiv(RMul(RSub(nextUAL, oldUAL), Hundred), oldUAL)
    ELSE IF nextUAL # Zero
         THEN RDiv(RMul(nextUAL, Hundred), liability)
         ELSE Zero

\* max(liability - assets - payGo, 0) of the plan as the cycle left it.
FlooredUAL ==
    LET gap == RSub(RSub(plan.liability, plan.assets), plan.payGo)
    IN  IF gap[1] < 0 THEN Zero ELSE gap

\* The parts of C6 that do not depend on how growthRate is rounded.
GrowthStepSafe ==
    /\ call.step = "done"
    /\ (call.before.ual = Zero /\ FlooredUAL # Zero) => plan.liability # Zero
    /\ plan.ual = FlooredUAL

\* C6 as stated: the growth-rate step never raises, stores
\* ual = max(liability - assets - payGo, 0) and sets growthRate to exactly
\* the value of the formula of step 12.
C6_GrowthRateExact ==
    (call.op = "advanceOneYear" /\ call.step \in ReachedGrowth) =>
        /\ GrowthStepSafe
        /\ plan.growthRate =
              GrowthFormula(call.before.ual, FlooredUAL, plan.liability)

\* C6, amended: the growth-rate step never raises, stores
\* ual = max(liability - assets - payGo, 0) and sets growthRate to the value
\* of the formula of step 12 rounded to 2 decimals.
C6_GrowthRateRounded ==
    (call.op = "advanceOneYear" /\ call.step \in ReachedGrowth) =>
        /\ GrowthStepSafe
        /\ plan.growthRate =
              Round2(GrowthFormula(call.before.ual, FlooredUAL, plan.liability))

\* A cycle took the fallback: the stored UAL was 0 and the new one is not.
C6_Witness ==
    /\ call.op = "advanceOneYear"
    /\ call.step = "done"
    /\ call.before.ual = Zero
    /\ plan.ual # Zero
    /\ plan.growthRate # Zero

\* C8: the stored ual is never negative.
C8_UALNonNegative == plan.ual[1] >= 0

\* C9: the cycle that follows a cycle with payGo > 0 runs to completion,
\* increments currentYear by 1 and records the ledger entry of that year.
C9_CycleContinues ==
    (call.op = "advanceOneYear" /\ call.before.payGo[1] > 0) =>
        /\ exc = "none"
        /\ plan.currentYear = call.before.currentYear + 1
        /\ plan.currentYear \in DOMAIN fund.ledger
        /\ fund.currentYear = plan.currentYear

=============================================================================
